---- MODULE Spec2Model ----
(***************************************************************************)
(* imagerouter: the retrying request layer of ImageRouterClient            *)
(* (client.py), its status classifier, the caching ModelRegistry and the   *)
(* pricing records (models.py), and the CostEstimator (estimator.py).      *)
(*                                                                         *)
(*   Spec            one call of ImageRouterClient._request                *)
(*   ClassifierSpec  ImageRouterClient._handle_error_response on its own   *)
(*   RegistrySpec    a ModelRegistry driven by lookups and refreshes       *)
(*   EstimatorSpec   a CostEstimator and the ModelRegistry it owns          *)
(*   PricingSpec     PricingInfo.from_api_data and get_estimate             *)
(*   LoadedSpec      estimates on a registry that holds one model          *)
(*   ConcurrentSpec  a refresh() interleaved with lookups of another caller *)
(*   GeneratorSpec   image_to_image and image_to_video and their files      *)
(*   BudgetSpec      _request for every budget __init__ can set            *)
(*   FairSpec        Spec with every attempt and sleep completing          *)
(***************************************************************************)
EXTENDS Integers, Sequences, FiniteSets

VARIABLES
    max_retries,     \* ImageRouterClient.max_retries
    pc,              \* position of the caller inside _request
    attempt,         \* the loop variable of _request
    call_count,      \* number of requests.request(...) invocations
    last_exception,  \* _request's local last_exception (None = <<>>)
    response,        \* the response received by the latest attempt (<<>> = none)
    outcomes,        \* what each attempt received, in order
    sleeps,          \* the arguments of the time.sleep calls, in order
    result,          \* how the call ended: returned value or raised error
    _models,         \* ModelRegistry._models
    fetches,         \* number of ImageRouterClient.list_models invocations
    refreshes,       \* number of explicit ModelRegistry.refresh() calls
    lookups,         \* number of lookup calls
    lookup_first,    \* a lookup was made before the first explicit refresh
    fetch_failed,    \* some list_models call has raised
    reg_result,      \* outcome of the latest Registry or Estimator operation
    call,            \* the latest Registry or Estimator operation and its arguments
    catalog,         \* what the "data" list of the latest list_models() answer held
    last_refresh,    \* how the refresh run by the latest operation ended
    returned,        \* which dict object the latest operation returned
    estimates,       \* number of CostEstimator.estimate_* calls
    fetch_error,     \* what list_models() raised in the latest operation
    refreshing,      \* position and locals of a refresh() in progress
    handles          \* the files the latest generator call opened: open or closed

transport_vars == <<max_retries, pc, attempt, call_count, last_exception,
                    response, outcomes, sleeps, result>>
registry_vars == <<_models, fetches, refreshes, lookups, lookup_first,
                   fetch_failed, reg_result, call, catalog, last_refresh,
                   returned, estimates, fetch_error, refreshing, handles>>
\* the variables of a refresh in progress and of the generators
other_vars == <<refreshing, handles>>
vars == <<transport_vars, registry_vars>>

----------------------------------------------------------------------------
(* Bounds of the model *)

\* largest retry budget explored
MaxRetries == 3
\* largest number of entries in a fetched catalog
MaxCatalog == 2
\* largest number of Registry operations in one behaviour
MaxOps == 4

\* client.py: DEFAULT_MAX_RETRIES
DEFAULT_MAX_RETRIES == 3

----------------------------------------------------------------------------
(* Python values *)

\* None is the empty sequence, a present value x is <<x>>.
None == <<>>
Some(x) == <<x>>

\* Text is a sequence of characters.
UpperCase == <<"A","B","C","D","E","F","G","H","I","J","K","L","M",
               "N","O","P","Q","R","S","T","U","V","W","X","Y","Z">>
LowerCase == <<"a","b","c","d","e","f","g","h","i","j","k","l","m",
               "n","o","p","q","r","s","t","u","v","w","x","y","z">>

LowerChar(c) ==
    IF \E i \in 1..Len(UpperCase) : UpperCase[i] = c
    THEN LowerCase[CHOOSE i \in 1..Len(UpperCase) : UpperCase[i] = c]
    ELSE c

\* str.lower()
Lower(s) == [i \in 1..Len(s) |-> LowerChar(s[i])]

\* the Python expression  sub in s  on strings
Contains(s, sub) ==
    \E i \in 1..(Len(s) - Len(sub) + 1) : SubSeq(s, i, i + Len(sub) - 1) = sub

WordModel == <<"m","o","d","e","l">>
WordCredit == <<"c","r","e","d","i","t">>

Texts == { <<"N","o"," ","M","O","D","E","L">>,
           <<"C","r","e","d","i","t","s">>,
           <<"c","r","e","d","i","t"," ","m","o","d","e","l">>,
           <<"o","o","p","s">> }

\* A JSON field: absent, a string, or a value that is no string (null, number).
JAbsent == [t |-> "absent", v |-> <<>>]
JNonString == [t |-> "nonstring", v |-> <<>>]
JStr(s) == [t |-> "str", v |-> s]

\* What response.json() yields.  kind "notjson": json() raises ValueError;
\* "nonobject": a JSON list, string, number or null; "object": a JSON object
\* whose "error" member is absent, is no object, or is an object whose
\* "message" member is msg.
NotJson == [kind |-> "notjson", err |-> "absent", msg |-> JAbsent]
JsonValues ==
    { [kind |-> "nonobject", err |-> "absent", msg |-> JAbsent],
      [kind |-> "object", err |-> "absent", msg |-> JAbsent],
      [kind |-> "object", err |-> "nonobject", msg |-> JAbsent] }
    \cup { [kind |-> "object", err |-> "object", msg |-> m] :
             m \in {JAbsent, JNonString} \cup { JStr(s) : s \in Texts } }
Bodies == JsonValues \cup {NotJson}

\* The Retry-After header: absent, an integer literal, or another string
\* (an HTTP-date).
HeaderInt(n) == [t |-> "int", n |-> n]
HeaderDate == [t |-> "date", n |-> 0]
RetryAfterHeaders == {None, Some(HeaderDate)}
                     \cup { Some(HeaderInt(n)) : n \in {-1, 1, 7} }

OkStatuses == {200, 204, 399}
ErrorStatuses == {400, 401, 402, 403, 404, 500, 599, 600}
RateLimited == 429

Response(status, json, text, header) ==
    [status_code |-> status, json |-> json, text |-> text, retry_after |-> header]

----------------------------------------------------------------------------
(* exceptions.py *)

ImageRouterErrors ==
    {"ImageRouterError", "AuthenticationError", "RateLimitError",
     "InsufficientCreditsError", "ModelNotFoundError", "ValidationError",
     "GenerationError", "NetworkError"}

\* ImageRouterError.__init__(message, status_code=None, response_data=None)
Raise(type, message, status_code, response_data) ==
    [kind |-> "raise", type |-> type, message |-> message,
     status_code |-> status_code, response_data |-> response_data]

\* an exception that is no ImageRouterError
RaiseOther(type) == Raise(type, JAbsent, None, None)

Return(value) == [kind |-> "return", value |-> value]
NoResult == [kind |-> "none"]

\* A call of a ModelRegistry or CostEstimator method: the method, its model
\* id or output type, and for estimate_* the seconds and count arguments.
\* mutated: the caller has since changed the dict the call returned.
Call(op, arg, seconds, count) ==
    [op |-> op, arg |-> arg, seconds |-> seconds, count |-> count,
     mutated |-> FALSE]
NoCall == Call("none", "", None, 1)

\* no refresh() in progress
NoRefresh == [at |-> "idle"]

\* no catalog fetched yet
NoCatalog == [ids |-> {}, no_id |-> FALSE]

----------------------------------------------------------------------------
(* client.py: ImageRouterClient._handle_error_response *)

\* Classify with the 5xx rule placed before the "credit" rule.
ClassifyCreditAfter5xx(status_code, error_message) ==
    IF status_code = 401 THEN "AuthenticationError"
    ELSE IF status_code = 429 THEN "RateLimitError"
    ELSE IF status_code = 400 THEN "ValidationError"
    ELSE IF status_code = 404 THEN
        IF error_message.t # "str" THEN "AttributeError"
        ELSE IF Contains(Lower(error_message.v), WordModel)
             THEN "ModelNotFoundError"
             ELSE "ImageRouterError"
    ELSE IF status_code = 402 THEN "InsufficientCreditsError"
    ELSE IF 500 <= status_code /\ status_code < 600 THEN "GenerationError"
    ELSE IF error_message.t # "str" THEN "AttributeError"
    ELSE IF Contains(Lower(error_message.v), WordCredit)
         THEN "InsufficientCreditsError"
    ELSE "ImageRouterError"

\* The rule chain of _handle_error_response: the name of the exception class
\* raised for (status_code, error_message).  error_message.lower() raises
\* AttributeError when error_message is no string.
Classify(status_code, error_message) ==
    IF status_code = 401 THEN "AuthenticationError"
    ELSE IF status_code = 429 THEN "RateLimitError"
    ELSE IF status_code = 400 THEN "ValidationError"
    ELSE IF status_code = 404 THEN
        IF error_message.t # "str" THEN "AttributeError"
        ELSE IF Contains(Lower(error_message.v), WordModel)
             THEN "ModelNotFoundError"
             ELSE "ImageRouterError"
    ELSE IF status_code = 402 THEN "InsufficientCreditsError"
    ELSE IF error_message.t # "str" THEN "AttributeError"
    ELSE IF Contains(Lower(error_message.v), WordCredit)
         THEN "InsufficientCreditsError"
    ELSE IF 500 <= status_code /\ status_code < 600 THEN "GenerationError"
    ELSE "ImageRouterError"

\* data: response.json(), or {"error": {"message": response.text}} when
\* json() raises ValueError.
ErrorData(resp) ==
    IF resp.json.kind = "notjson"
    THEN [kind |-> "object", err |-> "object", msg |-> JStr(resp.text)]
    ELSE resp.json

\* data.get("error", {}).get("message", response.text) is evaluated without
\* raising: data and data["error"] both have a .get
HasErrorMessage(resp) ==
    /\ ErrorData(resp).kind = "object"
    /\ ErrorData(resp).err # "nonobject"

\* error_message = data.get("error", {}).get("message", response.text)
ErrorMessage(resp) ==
    LET data == ErrorData(resp)
    IN  IF data.err = "absent" \/ data.msg = JAbsent
        THEN JStr(resp.text)
        ELSE data.msg

\* The exception _handle_error_response(response) raises.
HandleErrorResponse(resp) ==
    IF ~HasErrorMessage(resp) THEN RaiseOther("AttributeError")
    ELSE LET type == Classify(resp.status_code, ErrorMessage(resp))
         IN  IF type = "AttributeError" THEN RaiseOther("AttributeError")
             ELSE Raise(type, ErrorMessage(resp), Some(resp.status_code),
                        Some(ErrorData(resp)))

----------------------------------------------------------------------------
(* client.py: ImageRouterClient._request *)

\* an exception raised by requests.request in the attempt with index at
Exc(type, at) == [type |-> type, at |-> at]

\* 2 ** attempt
Pow2(n) == IF n = 0 THEN 1 ELSE 2 * 2^(n - 1)

\* the budgets a call is explored with
Budgets == 1..MaxRetries

Init ==
    /\ max_retries \in Budgets
    /\ pc = "idle"
    /\ attempt = 0
    /\ call_count = 0
    /\ last_exception = None
    /\ response = None
    /\ outcomes = <<>>
    /\ sleeps = <<>>
    /\ result = NoResult
    /\ _models = None
    /\ fetches = 0
    /\ refreshes = 0
    /\ lookups = 0
    /\ lookup_first = FALSE
    /\ fetch_failed = FALSE
    /\ reg_result = NoResult
    /\ call = NoCall
    /\ catalog = NoCatalog
    /\ last_refresh = "none"
    /\ returned = "none"
    /\ estimates = 0
    /\ fetch_error = NoResult
    /\ refreshing = NoRefresh
    /\ handles = <<>>

\* _request is entered: last_exception = None, the loop starts at attempt 0
Request ==
    /\ pc = "idle"
    /\ pc' = "loop"
    /\ attempt' = 0
    /\ last_exception' = None
    /\ UNCHANGED <<max_retries, call_count, response, outcomes, sleeps, result>>
    /\ UNCHANGED registry_vars

\* for attempt in range(self.max_retries), with <= in place of <
InRangeInclusive == attempt <= max_retries

\* for attempt in range(self.max_retries): the body runs for this attempt
InRange == attempt < max_retries

\* if attempt < self.max_retries - 1
BackoffAllowed == attempt < max_retries - 1

\* requests.request(...) is invoked and what it does is recorded
Issue(kind) ==
    /\ InRange
    /\ call_count' = call_count + 1
    /\ outcomes' = Append(outcomes, kind)

Finish(r) ==
    /\ pc' = "done"
    /\ result' = r
    /\ UNCHANGED <<max_retries, attempt, sleeps>>

\* a backoff of one second whatever the attempt and the header
SleepThenContinueOneSecond(seconds) ==
    /\ pc' = "sleep"
    /\ sleeps' = Append(sleeps, 1)
    /\ UNCHANGED <<max_retries, attempt, result>>

\* time.sleep(seconds); continue
SleepThenContinue(seconds) ==
    /\ pc' = "sleep"
    /\ sleeps' = Append(sleeps, seconds)
    /\ UNCHANGED <<max_retries, attempt, result>>

\* status < 400: return response.json().  On a body that is no JSON json()
\* raises requests' JSONDecodeError: a RequestException in requests >= 2.27
\* (caught by the last except clause), a plain ValueError before that.
AttemptOk ==
    \E status \in OkStatuses, json \in Bodies, text \in Texts :
        /\ pc = "loop"
        /\ Issue("ok")
        /\ response' = Some(Response(status, json, text, None))
        /\ UNCHANGED last_exception
        /\ IF json.kind = "notjson"
           THEN \E type \in {"NetworkError", "ValueError"} :
                   Finish(IF type = "NetworkError"
                          THEN Raise("NetworkError",
                                     [t |-> "failed", exc |-> Exc("JSONDecodeError", attempt)],
                                     None, None)
                          ELSE RaiseOther("ValueError"))
           ELSE Finish(Return(json))
        /\ UNCHANGED registry_vars

\* status 429: int(response.headers.get("Retry-After", 2 ** attempt)), then
\* time.sleep(retry_after) and continue.  int() raises ValueError on a header
\* that is no integer literal, time.sleep raises ValueError on a negative one.
Attempt429 ==
    \E header \in RetryAfterHeaders, json \in {NotJson}, text \in {<<>>} :
        /\ pc = "loop"
        /\ Issue("429")
        /\ response' = Some(Response(RateLimited, json, text, header))
        /\ UNCHANGED last_exception
        /\ IF header = None
           THEN SleepThenContinue(Pow2(attempt))
           ELSE IF header[1].t = "int" /\ header[1].n >= 0
                THEN SleepThenContinue(header[1].n)
                ELSE Finish(RaiseOther("ValueError"))
        /\ UNCHANGED registry_vars

\* status >= 400 other than 429: self._handle_error_response(response)
AttemptError ==
    \E status \in ErrorStatuses, json \in Bodies, text \in Texts :
        /\ pc = "loop"
        /\ Issue("error")
        /\ response' = Some(Response(status, json, text, None))
        /\ UNCHANGED last_exception
        /\ Finish(HandleErrorResponse(Response(status, json, text, None)))
        /\ UNCHANGED registry_vars

\* The except clause shared in shape by Timeout and ConnectionError:
\* last_exception = e; sleep and continue if attempts remain, else fall out
\* of the try statement into the next iteration.
Retryable(type) ==
    /\ Issue(type)
    /\ response' = None
    /\ last_exception' = Some(Exc(type, attempt))
    /\ IF BackoffAllowed
       THEN SleepThenContinue(Pow2(attempt))
       ELSE /\ pc' = "loop"
            /\ attempt' = attempt + 1
            /\ UNCHANGED <<max_retries, sleeps, result>>
    /\ UNCHANGED registry_vars

\* an except clause that raises NetworkError at once
FailFast(type) ==
    /\ Issue(type)
    /\ response' = None
    /\ UNCHANGED last_exception
    /\ Finish(Raise("NetworkError", [t |-> "failed", exc |-> Exc(type, attempt)],
                    None, None))
    /\ UNCHANGED registry_vars

\* except requests.exceptions.Timeout
AttemptTimeout ==
    /\ pc = "loop"
    /\ Retryable("Timeout")

\* the ConnectionError clause raising at once
AttemptConnectionErrorNoRetry ==
    /\ pc = "loop"
    /\ FailFast("ConnectionError")

\* except requests.exceptions.ConnectionError
AttemptConnectionError ==
    /\ pc = "loop"
    /\ Retryable("ConnectionError")

\* the RequestException clause retrying like a timeout
AttemptRequestExceptionRetried ==
    /\ pc = "loop"
    /\ Retryable("RequestException")

\* except requests.exceptions.RequestException: raise NetworkError from e
AttemptRequestException ==
    /\ pc = "loop"
    /\ FailFast("RequestException")

\* time.sleep returns; continue moves the loop to the next attempt
Wake ==
    /\ pc = "sleep"
    /\ pc' = "loop"
    /\ attempt' = attempt + 1
    /\ UNCHANGED <<max_retries, call_count, last_exception, response, outcomes,
                   sleeps, result>>
    /\ UNCHANGED registry_vars

\* the loop is over: raise NetworkError("Request failed after {max_retries}
\* attempts: {last_exception}")
Exhausted ==
    /\ pc = "loop"
    /\ ~InRange
    /\ pc' = "done"
    /\ result' = Raise("NetworkError",
                       [t |-> "exhausted", n |-> max_retries, exc |-> last_exception],
                       None, None)
    /\ UNCHANGED <<max_retries, attempt, call_count, last_exception, response,
                   outcomes, sleeps>>
    /\ UNCHANGED registry_vars

Next ==
    \/ Request
    \/ AttemptError
    \/ Attempt429
    \/ AttemptOk
    \/ AttemptTimeout
    \/ AttemptConnectionError
    \/ AttemptRequestException
    \/ Wake
    \/ Exhausted

Spec == Init /\ [][Next]_vars

----------------------------------------------------------------------------
(* ImageRouterClient._handle_error_response called on its own *)

ErrorResponses ==
    { Response(status, json, text, None) :
        status \in ErrorStatuses \cup {RateLimited}, json \in Bodies, text \in Texts }

ClassifierInit ==
    /\ max_retries = DEFAULT_MAX_RETRIES
    /\ pc = "classify"
    /\ attempt = 0
    /\ call_count = 0
    /\ last_exception = None
    /\ response \in { Some(r) : r \in ErrorResponses }
    /\ outcomes = <<>>
    /\ sleeps = <<>>
    /\ result = NoResult
    /\ _models = None
    /\ fetches = 0
    /\ refreshes = 0
    /\ lookups = 0
    /\ lookup_first = FALSE
    /\ fetch_failed = FALSE
    /\ reg_result = NoResult
    /\ call = NoCall
    /\ catalog = NoCatalog
    /\ last_refresh = "none"
    /\ returned = "none"
    /\ estimates = 0
    /\ fetch_error = NoResult
    /\ refreshing = NoRefresh
    /\ handles = <<>>

\* self._handle_error_response(response)
HandleError ==
    /\ pc = "classify"
    /\ pc' = "raised"
    /\ result' = HandleErrorResponse(response[1])
    /\ UNCHANGED <<max_retries, attempt, call_count, last_exception, response,
                   outcomes, sleeps>>
    /\ UNCHANGED registry_vars

ClassifierNext == HandleError

ClassifierSpec == ClassifierInit /\ [][ClassifierNext]_vars

----------------------------------------------------------------------------
(* Properties of _request, checked under Spec *)

Received(kinds) == \A i \in 1..Len(outcomes) : outcomes[i] \in kinds
Last(seq) == seq[Len(seq)]

\* C1: whatever the attempts receive, one _request call invokes
\* requests.request at most max_retries times.
C1_AttemptsBounded ==
    /\ call_count = Len(outcomes)
    /\ call_count <= max_retries

\* C1 witness: a finished call that used its whole budget of three or more
\* attempts on a mix of 429 responses and transport failures.
C1_Witness ==
    /\ pc = "done"
    /\ max_retries >= 3
    /\ call_count = max_retries
    /\ \E i, j, k \in 1..Len(outcomes) :
          /\ outcomes[i] = "429"
          /\ outcomes[j] = "Timeout"
          /\ outcomes[k] = "ConnectionError"

\* C2: k responses with status 429 followed by a response with status < 400,
\* within the budget, make the call return the parsed body of attempt k+1
\* after exactly k+1 attempts: while only 429 has been received and attempts
\* remain the call goes on to the next attempt, and once the status < 400
\* arrives with a JSON body the call returns that body.
C2_SucceedsAfter429s ==
    LET n == Len(outcomes)
    IN  /\ (Received({"429"}) /\ n < max_retries) => pc # "done"
        /\ ( /\ pc = "done"
             /\ n >= 1
             /\ outcomes[n] = "ok"
             /\ response[1].json # NotJson
             /\ \A i \in 1..(n - 1) : outcomes[i] = "429" )
           => /\ result = Return(response[1].json)
              /\ call_count = n

\* C3: a call that receives 429 on every attempt of its budget, and has
\* backed off after each, fails with RateLimitError carrying status code 429.
C3_RateLimitErrorOnExhaustion ==
    ( /\ pc = "done"
      /\ Len(outcomes) = max_retries
      /\ Received({"429"})
      /\ Len(sleeps) = max_retries )
    => /\ result.kind = "raise"
       /\ result.type = "RateLimitError"
       /\ result.status_code = Some(RateLimited)

\* Once an attempt has received a status >= 400 other than 429, the call is
\* over: that attempt is the last one and no sleep follows it.
ErrorStatusEndsCall ==
    \A i \in 1..Len(outcomes) :
        outcomes[i] = "error"
        => /\ i = Len(outcomes)
           /\ call_count = i
           /\ pc = "done"
           /\ Len(sleeps) <= i - 1
           /\ result = HandleErrorResponse(response[1])

\* C4: an attempt that receives a status >= 400 other than 429 is the last
\* one, no sleep follows it, and the call fails with the typed error of the
\* classifier, at whatever attempt index.
C4_ErrorStatusFailsAtOnce ==
    /\ ErrorStatusEndsCall
    /\ \A i \in 1..Len(outcomes) :
          outcomes[i] = "error"
          => /\ result.kind = "raise"
             /\ result.type \in ImageRouterErrors
             /\ result.status_code = Some(response[1].status_code)

\* C5: when every attempt fails with a timeout or a connection failure, the
\* call makes exactly max_retries attempts and then raises the NetworkError
\* that carries the exception of the last attempt.
C5_NetworkErrorAfterRetries ==
    (pc = "done" /\ Received({"Timeout", "ConnectionError"}))
    => /\ call_count = max_retries
       /\ Len(outcomes) = max_retries
       /\ result = Raise("NetworkError",
                         [t |-> "exhausted", n |-> max_retries,
                          exc |-> Some(Exc(Last(outcomes), max_retries - 1))],
                         None, None)

\* C5 witness: a finished call of three or more attempts, the first a
\* timeout and the last a connection failure, none anything else.
C5_Witness ==
    /\ pc = "done"
    /\ max_retries >= 3
    /\ Received({"Timeout", "ConnectionError"})
    /\ outcomes[1] = "Timeout"
    /\ Last(outcomes) = "ConnectionError"
    /\ Len(sleeps) = max_retries - 1

\* C6: a transport exception that is neither a timeout nor a connection
\* failure ends the call at once with NetworkError; no attempt follows it,
\* also when attempts remain.
C6_OtherExceptionFailsAtOnce ==
    \A i \in 1..Len(outcomes) :
        outcomes[i] = "RequestException"
        => /\ i = Len(outcomes)
           /\ call_count = i
           /\ pc = "done"
           /\ result = Raise("NetworkError",
                             [t |-> "failed", exc |-> Exc("RequestException", i - 1)],
                             None, None)

\* C6 witness: the exception arrives on the second attempt, after a timeout,
\* with a third attempt still in the budget.
C6_Witness ==
    /\ pc = "done"
    /\ max_retries >= 3
    /\ outcomes = <<"Timeout", "RequestException">>
    /\ result.type = "NetworkError"

\* C8: every error raised from a response with status >= 400 carries the
\* response's status code, its payload, and as message the value at
\* error.message of the JSON body, or the response text when the body is no
\* JSON or has no such field.
C8_ErrorCarriesResponse ==
    ( /\ pc = "done"
      /\ result.kind = "raise"
      /\ outcomes # <<>>
      /\ Last(outcomes) \in {"error", "429"} )
    => LET r == response[1]
           hasField == /\ r.json.kind = "object"
                       /\ r.json.err = "object"
                       /\ r.json.msg # JAbsent
       IN  /\ result.status_code = Some(r.status_code)
           /\ result.response_data = Some(ErrorData(r))
           /\ result.message = IF hasField THEN r.json.msg ELSE JStr(r.text)

\* C9: every failure of a call reaches the caller as an ImageRouterError
\* subtype, whatever the status, the shape of the body and the Retry-After
\* header.
C9_OnlyImageRouterErrors ==
    (pc = "done" /\ result.kind = "raise") => result.type \in ImageRouterErrors

----------------------------------------------------------------------------
(* Properties of _handle_error_response, checked under ClassifierSpec *)

\* The rules of the classifier in their documented order, as <<applies, kind>>.
Rules(status, message) ==
    LET lower == Lower(message)
    IN  << <<status = 401, "AuthenticationError">>,
           <<status = 429, "RateLimitError">>,
           <<status = 400, "ValidationError">>,
           <<status = 404 /\ Contains(lower, WordModel), "ModelNotFoundError">>,
           <<status = 404, "ImageRouterError">>,
           <<status = 402 \/ Contains(lower, WordCredit), "InsufficientCreditsError">>,
           <<status \in 500..599, "GenerationError">>,
           <<TRUE, "ImageRouterError">> >>

FirstMatch(rules) ==
    rules[CHOOSE i \in 1..Len(rules) :
              rules[i][1] /\ \A j \in 1..(i - 1) : ~rules[j][1]][2]

\* C7: for every status >= 400 and every message text the classifier raises
\* the kind of the first rule that applies, in the order 401, 429, 400,
\* 404 with "model", 404, 402 or "credit", 5xx, anything else; so a 5xx
\* with "credit" in its message is InsufficientCreditsError and a 400 or 404
\* with "credit" is not.
C7_FirstMatchingRule ==
    ( /\ pc = "raised"
      /\ HasErrorMessage(response[1])
      /\ ErrorMessage(response[1]).t = "str" )
    => LET status == response[1].status_code
           message == ErrorMessage(response[1]).v
       IN  /\ result.kind = "raise"
           /\ result.type = FirstMatch(Rules(status, message))
           /\ (status \in 500..599 /\ Contains(Lower(message), WordCredit))
              => result.type = "InsufficientCreditsError"
           /\ (status \in {400, 404})
              => result.type # "InsufficientCreditsError"

\* C7 witness: a 5xx response whose message holds "Credit" in mixed case has
\* been classified.
C7_Witness ==
    /\ pc = "raised"
    /\ response[1].status_code = 599
    /\ HasErrorMessage(response[1])
    /\ ErrorMessage(response[1]) = JStr(<<"C","r","e","d","i","t","s">>)
    /\ result.type = "InsufficientCreditsError"

----------------------------------------------------------------------------
(* models.py: PricingInfo, ModelInfo *)

\* A JSON number field: absent, a number n, null, or a string that is no
\* number.  Prices are in cents.
NumAbsent == [t |-> "absent", n |-> 0]
NumNull == [t |-> "null", n |-> 0]
NumText == [t |-> "text", n |-> 0]
Num(n) == [t |-> "num", n |-> n]

\* float(d.get(key, 0)) raises: TypeError on null, ValueError on a string
\* that is no number
FloatRaises(field) == field.t \in {"null", "text"}
FloatError(field) == IF field.t = "null" THEN "TypeError" ELSE "ValueError"
\* float(d.get(key, 0))
Float(field) == IF field.t = "num" THEN field.n ELSE 0

\* the "range" member of a pricing object; absent is {}
Range(min, average, max) == [min |-> min, average |-> average, max |-> max]
NoRange == Range(NumAbsent, NumAbsent, NumAbsent)

\* A pricing object; type NoType stands for an object with no "type" member.
RawPricing(type, value, range) == [type |-> type, value |-> value, range |-> range]
NoType == "(absent)"

\* pricing_data.get("type", "unknown")
PricingType(pricing_data) ==
    IF pricing_data.type = NoType THEN "unknown" ELSE pricing_data.type

\* PricingInfo.from_api_data raises
PricingRaises(pricing_data) ==
    IF PricingType(pricing_data) = "fixed"
    THEN FloatRaises(pricing_data.value)
    ELSE \/ FloatRaises(pricing_data.range.min)
         \/ FloatRaises(pricing_data.range.max)
         \/ FloatRaises(pricing_data.range.average)

\* the exception PricingInfo.from_api_data raises: that of the first float()
\* that fails, min_price, max_price, average_price being built in this order
PricingError(pricing_data) ==
    IF PricingType(pricing_data) = "fixed"
    THEN FloatError(pricing_data.value)
    ELSE IF FloatRaises(pricing_data.range.min)
         THEN FloatError(pricing_data.range.min)
         ELSE IF FloatRaises(pricing_data.range.max)
              THEN FloatError(pricing_data.range.max)
              ELSE FloatError(pricing_data.range.average)

\* from_api_data without the branch for "fixed": every record read from "range"
PricingFromApiDataRangeOnly(pricing_data) ==
    [pricing_type |-> PricingType(pricing_data),
     value |-> None,
     min_price |-> Some(Float(pricing_data.range.min)),
     max_price |-> Some(Float(pricing_data.range.max)),
     average_price |-> Some(Float(pricing_data.range.average))]

\* PricingInfo.from_api_data
PricingFromApiData(pricing_data) ==
    IF PricingType(pricing_data) = "fixed"
    THEN LET value == Float(pricing_data.value)
         IN  [pricing_type |-> PricingType(pricing_data),
              value |-> Some(value),
              min_price |-> Some(value),
              max_price |-> Some(value),
              average_price |-> Some(value)]
    ELSE [pricing_type |-> PricingType(pricing_data),
          value |-> None,
          min_price |-> Some(Float(pricing_data.range.min)),
          max_price |-> Some(Float(pricing_data.range.max)),
          average_price |-> Some(Float(pricing_data.range.average))]

\* x or 0
OrZero(x) == IF x = None THEN 0 ELSE x[1]

\* the tuple in the order of the fields: (min, max, average)
GetEstimateMinMaxAverage(info) ==
    IF info.pricing_type = "fixed" /\ info.value # None
    THEN <<info.value[1], info.value[1], info.value[1]>>
    ELSE <<OrZero(info.min_price), OrZero(info.max_price), OrZero(info.average_price)>>

\* PricingInfo.get_estimate: (min, average, max)
GetEstimate(info) ==
    IF info.pricing_type = "fixed" /\ info.value # None
    THEN <<info.value[1], info.value[1], info.value[1]>>
    ELSE <<OrZero(info.min_price), OrZero(info.average_price), OrZero(info.max_price)>>

\* One object of the "data" list of GET /v1/models.  id "" stands for an
\* object with no id (or an empty one); seconds None for no "seconds".
RawModel(id, output, pricing, seconds) ==
    [id |-> id, output |-> output, pricing |-> pricing, seconds |-> seconds]

\* ModelInfo.from_api_data
ModelFromApiData(data) ==
    [id |-> data.id,
     output_types |-> data.output,
     pricing |-> PricingFromApiData(data.pricing),
     supported_durations |-> data.seconds,
     raw_data |-> data]

Entries ==
    { RawModel("m1", {"video"},
               RawPricing("calculated", NumAbsent, Range(Num(60), Num(90), Num(120))),
               Some(<<4, 6, 8>>)),
      RawModel("m1", {"image", "video"}, RawPricing("fixed", Num(7), NoRange), None),
      RawModel("m2", {"image"}, RawPricing("fixed", Num(5), NoRange), Some(<<4, 6, 8>>)),
      RawModel("m2", {"image"}, RawPricing("fixed", NumNull, NoRange), None),
      RawModel("", {"image"}, RawPricing("fixed", Num(5), NoRange), None) }

\* the "data" lists a catalog fetch can answer with
RECURSIVE SeqsUpTo(_, _)
SeqsUpTo(S, n) ==
    IF n = 0 THEN {<<>>}
    ELSE LET shorter == SeqsUpTo(S, n - 1)
         IN  shorter \cup { Append(q, e) : q \in shorter, e \in S }

Catalogs == SeqsUpTo(Entries, MaxCatalog)

\* What is recorded of a "data" list: the ids of its objects that have a
\* non-empty id, and whether it holds an object without one (NoCatalog for
\* the empty list).
CatalogIds(data) ==
    [ids |-> { id \in { data[i].id : i \in 1..Len(data) } : id # "" },
     no_id |-> \E i \in 1..Len(data) : data[i].id = ""]

----------------------------------------------------------------------------
(* client.py: ImageRouterClient.list_models *)

\* The dict list_models() builds from the "data" list: objects without an id
\* are skipped, a later object replaces an earlier one of the same id, and
\* the keys keep the order of their first insertion.
ListModelsKeys(data) ==
    LET first == { i \in 1..Len(data) :
                     /\ data[i].id # ""
                     /\ \A j \in 1..(i - 1) : data[j].id # data[i].id }
        Nth[k \in 1..Cardinality(first)] ==
            CHOOSE i \in first : Cardinality({ j \in first : j < i }) = k - 1
    IN  [k \in 1..Cardinality(first) |-> data[Nth[k]].id]

ListModels(data) ==
    LET ids == { data[i].id : i \in 1..Len(data) } \ {""}
    IN  [keys |-> ListModelsKeys(data),
         at |-> [id \in ids |->
                   data[CHOOSE i \in 1..Len(data) :
                          /\ data[i].id = id
                          /\ \A j \in (i + 1)..Len(data) : data[j].id # id]]]

\* What one list_models() call does: it raises a typed error of the
\* Transport, or returns the dict built from the "data" list of the answer.
FetchOutcomes ==
    { [outcome |-> Raise(type, JAbsent, None, None), data |-> NoCatalog] :
        type \in {"NetworkError", "AuthenticationError"} }
    \cup { [outcome |-> Return(ListModels(data)), data |-> CatalogIds(data)] :
             data \in Catalogs }

----------------------------------------------------------------------------
(* models.py: ModelRegistry *)

\* if not self._models: in place of: if self._models is None
LoadedAndNotEmpty == _models # None /\ DOMAIN _models[1] # {}

\* _ensure_loaded calling refresh() on every lookup
LoadedNever == FALSE

\* _ensure_loaded does not refresh: self._models is not None
Loaded == _models # None

\* refresh(): the number of leading keys of raw_models whose ModelInfo is
\* built before from_api_data raises (all of them if none raises)
BuiltCount(raw_models) ==
    LET bad == { k \in 1..Len(raw_models.keys) :
                   PricingRaises(raw_models.at[raw_models.keys[k]].pricing) }
    IN  IF bad = {} THEN Len(raw_models.keys)
        ELSE (CHOOSE k \in bad : \A l \in bad : k <= l) - 1

\* refresh() without self._models = {}: the records built are put into the
\* mapping that is there
ModelsAfterRefreshMerging(outcome) ==
    IF outcome.kind = "raise" THEN _models
    ELSE LET raw_models == outcome.value
             built == { raw_models.keys[k] : k \in 1..BuiltCount(raw_models) }
             old == IF _models = None THEN <<>> ELSE _models[1]
         IN  Some([id \in built \cup DOMAIN old |->
                     IF id \in built THEN ModelFromApiData(raw_models.at[id])
                     ELSE old[id]])

\* refresh() with self._models = {} ahead of the list_models() call
ModelsAfterRefreshClearedFirst(outcome) ==
    IF outcome.kind = "raise" THEN Some(<<>>)
    ELSE LET raw_models == outcome.value
             built == { raw_models.keys[k] : k \in 1..BuiltCount(raw_models) }
         IN  Some([id \in built |-> ModelFromApiData(raw_models.at[id])])

\* refresh(): self._models once the call has returned or raised.
\* list_models() raising leaves it alone; otherwise it is set to {} and
\* filled key by key until a from_api_data raises.
ModelsAfterRefresh(outcome) ==
    IF outcome.kind = "raise" THEN _models
    ELSE LET raw_models == outcome.value
             built == { raw_models.keys[k] : k \in 1..BuiltCount(raw_models) }
         IN  Some([id \in built |-> ModelFromApiData(raw_models.at[id])])

\* refresh(): how the call ends
RefreshResult(outcome) ==
    IF outcome.kind = "raise" THEN outcome
    ELSE IF BuiltCount(outcome.value) < Len(outcome.value.keys)
         THEN RaiseOther("TypeError")
         ELSE Return(None)

RegistryInit ==
    /\ max_retries = DEFAULT_MAX_RETRIES
    /\ pc = "idle"
    /\ attempt = 0
    /\ call_count = 0
    /\ last_exception = None
    /\ response = None
    /\ outcomes = <<>>
    /\ sleeps = <<>>
    /\ result = NoResult
    /\ _models = None
    /\ fetches = 0
    /\ refreshes = 0
    /\ lookups = 0
    /\ lookup_first = FALSE
    /\ fetch_failed = FALSE
    /\ reg_result = NoResult
    /\ call = NoCall
    /\ catalog = NoCatalog
    /\ last_refresh = "none"
    /\ returned = "none"
    /\ estimates = 0
    /\ fetch_error = NoResult
    /\ refreshing = NoRefresh
    /\ handles = <<>>

OpsLeft == lookups + refreshes + estimates < MaxOps

\* refresh(): "fetch_raised" if list_models() raised, "build_raised" if a
\* from_api_data did, "ok" if the call returned
RefreshEnd(outcome) ==
    IF outcome.kind = "raise" THEN "fetch_raised"
    ELSE IF RefreshResult(outcome).kind = "raise" THEN "build_raised"
         ELSE "ok"

\* self._client.list_models() is called and answers with outcome
Fetch(outcome, data) ==
    /\ fetches' = fetches + 1
    /\ fetch_failed' = (fetch_failed \/ outcome.kind = "raise")
    /\ _models' = ModelsAfterRefresh(outcome)
    /\ last_refresh' = RefreshEnd(outcome)
    /\ catalog' = IF outcome.kind = "raise" THEN catalog ELSE data
    /\ fetch_error' = IF outcome.kind = "raise" THEN outcome ELSE NoResult

\* refresh(), called by registry.refresh() or estimator.refresh_models()
DoRefresh ==
    /\ refreshes' = refreshes + 1
    /\ \E fetch \in FetchOutcomes :
          /\ Fetch(fetch.outcome, fetch.data)
          /\ reg_result' = RefreshResult(fetch.outcome)
    /\ call' = Call("refresh", "", None, 1)
    /\ returned' = "none"
    /\ UNCHANGED <<lookups, lookup_first, estimates>>
    /\ UNCHANGED other_vars
    /\ UNCHANGED transport_vars

\* registry.refresh()
Refresh ==
    /\ OpsLeft
    /\ DoRefresh

ModelIds == {"m1", "m2", "m3"}

\* an unknown id answered with a model of the catalog instead of an error
GetModelAnswerAnyModel(models, model_id) ==
    IF model_id \notin DOMAIN models
    THEN IF DOMAIN models = {}
         THEN Raise("ModelNotFoundError", JAbsent, None, None)
         ELSE Return(models[CHOOSE id \in DOMAIN models : TRUE])
    ELSE Return(models[model_id])

\* get_model(model_id) once the mapping is loaded
GetModelAnswer(models, model_id) ==
    IF model_id \notin DOMAIN models
    THEN Raise("ModelNotFoundError", JAbsent, None, None)
    ELSE Return(models[model_id])

\* the dict comprehension of get_video_models / get_image_models
Filter(models, output_type) ==
    LET ids == { id \in DOMAIN models : output_type \in models[id].output_types }
    IN  [id \in ids |-> models[id]]

\* get_models_by_type(output_type) once the mapping is loaded:
\* get_video_models(), get_image_models(), or get_all_models() for any
\* other value
ByTypeAnswer(models, output_type) ==
    IF output_type \in {"video", "image"}
    THEN Return(Filter(models, output_type))
    ELSE Return(models)

----------------------------------------------------------------------------
(* estimator.py: CostEstimator *)

\* ValidationError(message); the message is kept as the name of the check
\* that failed: "count", "capability", "explicit_duration", "duration"
EstimatorError(check) == Raise("ValidationError", JStr(<<check>>), None, None)

\* if count < 0: in place of: if count < 1
CountNegative(count) == count < 0

\* if count < 1
CountInvalid(count) == count < 1

\* a model with any output type taken for a video model
IsVideoModelAnyOutput(model_info) == model_info.output_types # {}

\* ModelInfo.is_video_model
IsVideoModel(model_info) == "video" \in model_info.output_types

\* ModelInfo.is_image_model
IsImageModel(model_info) == "image" \in model_info.output_types

\* if model_info.supported_durations: neither None nor an empty list
HasDurations(model_info) ==
    /\ model_info.supported_durations # None
    /\ model_info.supported_durations[1] # <<>>

\* the default taken from the end of the list
GetDefaultDurationLast(model_info) ==
    IF HasDurations(model_info)
    THEN Some(model_info.supported_durations[1][Len(model_info.supported_durations[1])])
    ELSE None

\* ModelInfo.get_default_duration
GetDefaultDuration(model_info) ==
    IF HasDurations(model_info)
    THEN Some(model_info.supported_durations[1][1])
    ELSE None

\* duration not in model_info.supported_durations
DurationSupported(model_info, duration) ==
    \E i \in 1..Len(model_info.supported_durations[1]) :
        model_info.supported_durations[1][i] = duration

\* the totals left at the price of one unit
CostEstimateOneUnit(model, generation_type, duration, count, estimate) ==
    [model |-> model,
     generation_type |-> generation_type,
     duration_seconds |-> duration,
     count |-> count,
     price_per_unit |-> estimate[2],
     total_min |-> estimate[1],
     total_max |-> estimate[3],
     total_average |-> estimate[2],
     currency |-> "USD"]

\* CostEstimate(...) as estimate_video and estimate_image build it
CostEstimate(model, generation_type, duration, count, estimate) ==
    [model |-> model,
     generation_type |-> generation_type,
     duration_seconds |-> duration,
     count |-> count,
     price_per_unit |-> estimate[2],
     total_min |-> estimate[1] * count,
     total_max |-> estimate[3] * count,
     total_average |-> estimate[2] * count,
     currency |-> "USD"]

\* estimate_video with the duration validated before the capability
VideoAnswerDurationFirst(models, c) ==
    LET found == GetModelAnswer(models, c.arg)
    IN  IF found.kind = "raise" THEN found
        ELSE LET model_info == found.value
                 duration == IF c.seconds = None
                             THEN GetDefaultDuration(model_info)
                             ELSE c.seconds
             IN  IF duration = None
                 THEN EstimatorError("explicit_duration")
                 ELSE IF /\ HasDurations(model_info)
                         /\ ~DurationSupported(model_info, duration[1])
                      THEN EstimatorError("duration")
                      ELSE IF ~IsVideoModel(model_info)
                           THEN EstimatorError("capability")
                           ELSE Return(CostEstimate(c.arg, "video", duration, c.count,
                                                    GetEstimate(model_info.pricing)))

\* estimate_video from self._registry.get_model(model) on, the mapping loaded
VideoAnswer(models, c) ==
    LET found == GetModelAnswer(models, c.arg)
    IN  IF found.kind = "raise" THEN found
        ELSE LET model_info == found.value
                 duration == IF c.seconds = None
                             THEN GetDefaultDuration(model_info)
                             ELSE c.seconds
             IN  IF ~IsVideoModel(model_info)
                 THEN EstimatorError("capability")
                 ELSE IF duration = None
                      THEN EstimatorError("explicit_duration")
                      ELSE IF /\ HasDurations(model_info)
                              /\ ~DurationSupported(model_info, duration[1])
                           THEN EstimatorError("duration")
                           ELSE Return(CostEstimate(c.arg, "video", duration, c.count,
                                                    GetEstimate(model_info.pricing)))

\* estimate_image from self._registry.get_model(model) on, the mapping loaded
ImageAnswer(models, c) ==
    LET found == GetModelAnswer(models, c.arg)
    IN  IF found.kind = "raise" THEN found
        ELSE LET model_info == found.value
             IN  IF ~IsImageModel(model_info)
                 THEN EstimatorError("capability")
                 ELSE Return(CostEstimate(c.arg, "image", None, c.count,
                                          GetEstimate(model_info.pricing)))

----------------------------------------------------------------------------
(* ModelRegistry and CostEstimator: the operations *)

\* what the lookup call returns or raises once the mapping is loaded
Answer(models, c) ==
    CASE c.op = "get_model" -> GetModelAnswer(models, c.arg)
      [] c.op = "get_all_models" -> Return(models)
      [] c.op = "get_models_by_type" -> ByTypeAnswer(models, c.arg)
      [] c.op = "estimate_video" -> VideoAnswer(models, c)
      [] c.op = "estimate_image" -> ImageAnswer(models, c)

\* get_all_models() returning self._models itself
ReturnedObjectNoCopy(c) ==
    CASE c.op = "get_all_models" -> "cache"
      [] c.op = "get_models_by_type" ->
             IF c.arg \in {"video", "image"} THEN "fresh" ELSE "cache"
      [] OTHER -> "none"

\* The dict object a lookup hands to its caller: "fresh" for a new dict
\* (self._models.copy(), or the dict comprehension of get_video_models and
\* get_image_models), "cache" for self._models itself, "none" for no dict.
ReturnedObject(c) ==
    CASE c.op \in {"get_all_models", "get_models_by_type"} -> "fresh"
      [] OTHER -> "none"

\* A lookup: self._ensure_loaded(), then the answer from self._models.
Lookup(c) ==
    /\ lookups' = lookups + 1
    /\ lookup_first' = (lookup_first \/ refreshes = 0)
    /\ IF Loaded
       THEN /\ reg_result' = Answer(_models[1], c)
            /\ last_refresh' = "none"
            /\ fetch_error' = NoResult
            /\ UNCHANGED <<_models, fetches, fetch_failed, catalog>>
       ELSE \E fetch \in FetchOutcomes :
               /\ Fetch(fetch.outcome, fetch.data)
               /\ reg_result' = IF RefreshResult(fetch.outcome).kind = "raise"
                                THEN RefreshResult(fetch.outcome)
                                ELSE Answer(ModelsAfterRefresh(fetch.outcome)[1], c)
    /\ call' = c
    /\ returned' = IF reg_result'.kind = "return" THEN ReturnedObject(c) ELSE "none"
    /\ UNCHANGED refreshes
    /\ UNCHANGED other_vars
    /\ UNCHANGED transport_vars

\* registry.get_model(model_id)
GetModel ==
    /\ OpsLeft
    /\ \E model_id \in ModelIds : Lookup(Call("get_model", model_id, None, 1))
    /\ UNCHANGED estimates

\* registry.get_all_models(): self._models.copy()
GetAllModels ==
    /\ OpsLeft
    /\ Lookup(Call("get_all_models", "", None, 1))
    /\ UNCHANGED estimates

\* registry.get_models_by_type(output_type)
GetModelsByType ==
    /\ OpsLeft
    /\ \E output_type \in {"video", "image", "audio"} :
          Lookup(Call("get_models_by_type", output_type, None, 1))
    /\ UNCHANGED estimates

\* the record a caller puts into a dict it was handed
CallerModel(id) ==
    ModelFromApiData(RawModel(id, {"image"}, RawPricing("fixed", Num(5), NoRange), None))

\* The caller of a lookup that returned a dict removes the key id from that
\* dict, or adds it if the dict has no such key.  self._models changes with
\* it exactly if the dict is self._models itself.
CallerMutates ==
    /\ returned # "none"
    /\ ~call.mutated
    /\ \E id \in ModelIds :
          LET d == reg_result.value
              changed == IF id \in DOMAIN d
                         THEN [k \in DOMAIN d \ {id} |-> d[k]]
                         ELSE [k \in DOMAIN d \cup {id} |->
                                 IF k = id THEN CallerModel(id) ELSE d[k]]
          IN  /\ reg_result' = Return(changed)
              /\ _models' = IF returned = "cache" THEN Some(changed) ELSE _models
    /\ call' = [call EXCEPT !.mutated = TRUE]
    /\ UNCHANGED <<fetches, refreshes, lookups, lookup_first, fetch_failed,
                   catalog, last_refresh, returned, estimates, fetch_error>>
    /\ UNCHANGED other_vars
    /\ UNCHANGED transport_vars

RegistryNext ==
    \/ Refresh
    \/ GetModel
    \/ GetAllModels
    \/ GetModelsByType
    \/ CallerMutates

RegistrySpec == RegistryInit /\ [][RegistryNext]_vars

----------------------------------------------------------------------------
(* The CostEstimator and the ModelRegistry it owns *)

\* the seconds and count arguments explored
Seconds == {None, Some(5), Some(6)}
Counts == {-1, 0, 1, 2}

\* estimate_video / estimate_image: the count check, then the lookup
Estimate(c) ==
    /\ estimates' = estimates + 1
    /\ IF CountInvalid(c.count)
       THEN /\ reg_result' = EstimatorError("count")
            /\ call' = c
            /\ returned' = "none"
            /\ last_refresh' = "none"
            /\ fetch_error' = NoResult
            /\ UNCHANGED <<_models, fetches, refreshes, lookups, lookup_first,
                           fetch_failed, catalog>>
            /\ UNCHANGED other_vars
            /\ UNCHANGED transport_vars
       ELSE Lookup(c)

\* estimator.estimate_video(model, seconds, count)
EstimateVideo ==
    /\ OpsLeft
    /\ \E model \in ModelIds, seconds \in Seconds, count \in Counts :
          Estimate(Call("estimate_video", model, seconds, count))

\* estimator.estimate_image(model, quality, size, count); quality and size
\* are not read
EstimateImage ==
    /\ OpsLeft
    /\ \E model \in ModelIds, count \in Counts :
          Estimate(Call("estimate_image", model, None, count))

\* estimator.refresh_models()
RefreshModels ==
    /\ OpsLeft
    /\ DoRefresh

\* self._registry.get_model(model_id) on the estimator's registry
RegistryGetModel ==
    /\ OpsLeft
    /\ \E model_id \in ModelIds : Lookup(Call("get_model", model_id, None, 1))
    /\ UNCHANGED estimates

\* self._registry.get_all_models() on the estimator's registry
RegistryGetAllModels ==
    /\ OpsLeft
    /\ Lookup(Call("get_all_models", "", None, 1))
    /\ UNCHANGED estimates

\* CostEstimator.__init__: self._registry = ModelRegistry(client)
EstimatorInit == RegistryInit

EstimatorNext ==
    \/ EstimateVideo
    \/ EstimateImage
    \/ RefreshModels
    \/ RegistryGetModel
    \/ RegistryGetAllModels

EstimatorSpec == EstimatorInit /\ [][EstimatorNext]_vars

----------------------------------------------------------------------------
(* Properties of ModelRegistry, checked under RegistrySpec *)

\* C10: as long as no list_models call has raised, the number of catalog
\* fetches is the number of explicit refresh calls, plus one if a lookup was
\* made before the first refresh; so a lookup on a populated cache, an
\* empty one included, fetches nothing.
C10_FetchCount ==
    /\ [](~fetch_failed
          => fetches = refreshes + (IF lookup_first THEN 1 ELSE 0))
    /\ [][(_models # None /\ lookups' = lookups + 1) => fetches' = fetches]_vars

\* C10 witness: three lookups and no refresh on a cache that the first
\* lookup populated with an empty catalog, the last lookup a get_all_models:
\* one fetch.
C10_Witness ==
    /\ ~fetch_failed
    /\ refreshes = 0
    /\ lookups = 3
    /\ fetches = 1
    /\ _models = Some(<<>>)
    /\ reg_result = Return(<<>>)

\* C10 witness of the refresh case: lookup, refresh, lookup gives two fetches.
C10_WitnessRefresh ==
    /\ ~fetch_failed
    /\ lookup_first
    /\ refreshes = 1
    /\ lookups = 2
    /\ fetches = 2

----------------------------------------------------------------------------
(* PricingInfo.from_api_data and PricingInfo.get_estimate on their own *)

\* the prices explored, in cents
Prices == {0, 5, 60}
NumFields == {NumAbsent, NumNull, NumText} \cup { Num(n) : n \in Prices }

\* the "type" members explored: the three known types, one that is not
\* known, and no member at all
PricingTypes == {"fixed", "calculated", "post_generation", "tiered", NoType}

RawPricings ==
    { RawPricing(type, value, Range(min, average, max)) :
        type \in PricingTypes, value \in NumFields,
        min \in NumFields, average \in NumFields, max \in NumFields }

\* call.arg holds the pricing object to be read
PricingInit ==
    /\ max_retries = DEFAULT_MAX_RETRIES
    /\ pc = "idle"
    /\ attempt = 0
    /\ call_count = 0
    /\ last_exception = None
    /\ response = None
    /\ outcomes = <<>>
    /\ sleeps = <<>>
    /\ result = NoResult
    /\ _models = None
    /\ fetches = 0
    /\ refreshes = 0
    /\ lookups = 0
    /\ lookup_first = FALSE
    /\ fetch_failed = FALSE
    /\ reg_result = NoResult
    /\ \E pricing_data \in RawPricings : call = Call("none", pricing_data, None, 1)
    /\ catalog = NoCatalog
    /\ last_refresh = "none"
    /\ returned = "none"
    /\ estimates = 0
    /\ fetch_error = NoResult
    /\ refreshing = NoRefresh
    /\ handles = <<>>

\* PricingInfo.from_api_data(pricing_data)
FromApiData ==
    /\ call.op = "none"
    /\ call' = [call EXCEPT !.op = "from_api_data"]
    /\ reg_result' = IF PricingRaises(call.arg)
                     THEN RaiseOther(PricingError(call.arg))
                     ELSE Return(PricingFromApiData(call.arg))
    /\ UNCHANGED <<_models, fetches, refreshes, lookups, lookup_first,
                   fetch_failed, catalog, last_refresh, returned, estimates,
                   fetch_error>>
    /\ UNCHANGED other_vars
    /\ UNCHANGED transport_vars

\* pricing.get_estimate() on the record from_api_data returned; the result
\* keeps the record next to the tuple
CallGetEstimate ==
    /\ call.op = "from_api_data"
    /\ reg_result.kind = "return"
    /\ call' = [call EXCEPT !.op = "get_estimate"]
    /\ reg_result' = Return([pricing |-> reg_result.value,
                             estimate |-> GetEstimate(reg_result.value)])
    /\ UNCHANGED <<_models, fetches, refreshes, lookups, lookup_first,
                   fetch_failed, catalog, last_refresh, returned, estimates,
                   fetch_error>>
    /\ UNCHANGED other_vars
    /\ UNCHANGED transport_vars

PricingNext ==
    \/ FromApiData
    \/ CallGetEstimate

PricingSpec == PricingInit /\ [][PricingNext]_vars

----------------------------------------------------------------------------
(* Properties of the pricing records, checked under PricingSpec *)

\* the number a field that is absent or a number stands for
FieldOrZero(field) == IF field.t = "num" THEN field.n ELSE 0
Numeric(field) == field.t \in {"num", "absent"}

\* C15: a pricing object of type "fixed" with a number v as value gives a
\* record with value = min = average = max = v, whatever its range says, and
\* the estimate (v, v, v).
C15_FixedPricing ==
    (call.op \in {"from_api_data", "get_estimate"}
       /\ call.arg.type = "fixed" /\ call.arg.value.t = "num")
    => LET v == call.arg.value.n
           info == IF call.op = "from_api_data" THEN reg_result.value
                   ELSE reg_result.value.pricing
       IN  /\ reg_result.kind = "return"
           /\ info.value = Some(v)
           /\ info.min_price = Some(v)
           /\ info.average_price = Some(v)
           /\ info.max_price = Some(v)
           /\ call.op = "get_estimate" => reg_result.value.estimate = <<v, v, v>>

\* C15 witness: fixed at 5 cents next to a range that says otherwise.
C15_Witness ==
    /\ call.op = "get_estimate"
    /\ call.arg.type = "fixed"
    /\ call.arg.value = Num(5)
    /\ call.arg.range = Range(Num(60), Num(0), Num(60))
    /\ reg_result.value.estimate = <<5, 5, 5>>

\* C16: a pricing object whose type is not "fixed", its range subfields
\* numbers or missing, gives the estimate (range.min, range.average,
\* range.max) with 0 for each missing subfield, and keeps the declared type
\* as the kind of the record ("unknown" if no type is declared).
C16_RangePricing ==
    (call.op \in {"from_api_data", "get_estimate"}
       /\ call.arg.type # "fixed"
       /\ Numeric(call.arg.range.min)
       /\ Numeric(call.arg.range.average)
       /\ Numeric(call.arg.range.max))
    => LET info == IF call.op = "from_api_data" THEN reg_result.value
                   ELSE reg_result.value.pricing
       IN  /\ reg_result.kind = "return"
           /\ info.pricing_type = IF call.arg.type = NoType THEN "unknown"
                                  ELSE call.arg.type
           /\ call.op = "get_estimate" =>
                 reg_result.value.estimate = <<FieldOrZero(call.arg.range.min),
                                              FieldOrZero(call.arg.range.average),
                                              FieldOrZero(call.arg.range.max)>>

\* C16 witness: an unrecognized type with min and max but no average, and a
\* value that is not read.
C16_Witness ==
    /\ call.op = "get_estimate"
    /\ call.arg = RawPricing("tiered", NumNull, Range(Num(5), NumAbsent, Num(60)))
    /\ reg_result.value.pricing.pricing_type = "tiered"
    /\ reg_result.value.estimate = <<5, 0, 60>>

\* C16 witness of the object with no type and no range.
C16_WitnessNoType ==
    /\ call.op = "get_estimate"
    /\ call.arg = RawPricing(NoType, NumAbsent, NoRange)
    /\ reg_result.value.pricing.pricing_type = "unknown"
    /\ reg_result.value.estimate = <<0, 0, 0>>

\* C17: from_api_data returns a record for every pricing object, and a
\* field that is absent, null or not a number is 0 in it.
C17_NeverRaises ==
    call.op = "from_api_data"
    => /\ reg_result.kind = "return"
       /\ (PricingType(call.arg) = "fixed" /\ call.arg.value.t # "num")
            => reg_result.value.value = Some(0)
       /\ (PricingType(call.arg) # "fixed" /\ call.arg.range.min.t # "num")
            => reg_result.value.min_price = Some(0)
       /\ (PricingType(call.arg) # "fixed" /\ call.arg.range.max.t # "num")
            => reg_result.value.max_price = Some(0)
       /\ (PricingType(call.arg) # "fixed" /\ call.arg.range.average.t # "num")
            => reg_result.value.average_price = Some(0)

----------------------------------------------------------------------------
(* Properties of ModelRegistry.refresh and get_all_models, checked under   *)
(* RegistrySpec                                                            *)

\* an operation has just run a refresh that raised
RefreshFailed == last_refresh \in {"fetch_raised", "build_raised"}

\* C11: an operation whose refresh fails, in list_models() or in building a
\* record, leaves self._models as it was before the operation.
C11_FailedRefreshKeepsCache ==
    [][(fetches' = fetches + 1 /\ RefreshFailed') => _models' = _models]_vars

\* the part of C11 about list_models() raising
FetchFailureKeepsCache ==
    [][(fetches' = fetches + 1 /\ last_refresh' = "fetch_raised")
         => _models' = _models]_vars

\* C12: after a refresh that returned, the keys of self._models are exactly
\* the non-empty ids of the catalog just fetched, every record is stored
\* under its own id, and get_model finds no other id.
C12_CacheIsFetchedCatalog ==
    last_refresh = "ok"
    => /\ _models # None
       /\ DOMAIN _models[1] = catalog.ids
       /\ \A id \in DOMAIN _models[1] : _models[1][id].id = id
       /\ \A id \in ModelIds \ catalog.ids :
             GetModelAnswer(_models[1], id).kind = "raise"

\* C12 witness: a second catalog, fetched by an explicit refresh after a
\* lookup, that holds m2 and an object without id; the cache holds m2 alone.
C12_Witness ==
    /\ last_refresh = "ok"
    /\ call.op = "refresh"
    /\ fetches = 2
    /\ ~fetch_failed
    /\ catalog = [ids |-> {"m2"}, no_id |-> TRUE]
    /\ DOMAIN _models[1] = {"m2"}

\* C14: when the caller adds a key to the dict a lookup returned, or removes
\* one, self._models stays as it is, and so does what get_model and
\* get_all_models answer.
C14_ReturnedDictIsCopy ==
    [][(call'.mutated /\ ~call.mutated)
         => /\ _models' = _models
            /\ Answer(_models'[1], Call("get_all_models", "", None, 1))
                 = Answer(_models[1], Call("get_all_models", "", None, 1))
            /\ \A id \in ModelIds :
                  GetModelAnswer(_models'[1], id) = GetModelAnswer(_models[1], id)]_vars

\* C14 witness: the caller has removed m1 from the dict get_all_models
\* returned; the cache still holds m1.
C14_Witness ==
    /\ call.op = "get_all_models"
    /\ call.mutated
    /\ "m1" \notin DOMAIN reg_result.value
    /\ "m1" \in DOMAIN _models[1]

\* C14 witness of a key added.
C14_WitnessAdded ==
    /\ call.op = "get_all_models"
    /\ call.mutated
    /\ "m3" \in DOMAIN reg_result.value
    /\ "m3" \notin DOMAIN _models[1]

----------------------------------------------------------------------------
(* Properties of the CostEstimator, checked under EstimatorSpec *)

EstimateOps == {"estimate_video", "estimate_image"}

\* the latest operation has looked a model id up in a mapping that was
\* loaded, or that the operation itself loaded without error
LookedUp ==
    /\ call.op \in EstimateOps \cup {"get_model"}
    /\ call.count >= 1
    /\ last_refresh \in {"none", "ok"}

Raised(type) == reg_result.kind = "raise" /\ reg_result.type = type
RaisedCheck(check) == reg_result = Raise("ValidationError", JStr(<<check>>), None, None)

\* C13: get_model, estimate_video and estimate_image (count at least 1)
\* raise ModelNotFoundError for a model id that is no key of the mapping.
C13_UnknownModelNotFound ==
    (LookedUp /\ call.arg \notin DOMAIN _models[1]) => Raised("ModelNotFoundError")

\* C13 witness: estimate_video of m3, two units, on a cache that holds m1
\* and m2 and was loaded by an earlier operation.
C13_Witness ==
    /\ call = Call("estimate_video", "m3", Some(6), 2)
    /\ last_refresh = "none"
    /\ _models # None
    /\ DOMAIN _models[1] = {"m1", "m2"}
    /\ Raised("ModelNotFoundError")

\* C13 witness of get_model and of estimate_image.
C13_WitnessGetModel ==
    /\ call = Call("get_model", "m2", None, 1)
    /\ _models # None
    /\ DOMAIN _models[1] = {"m1"}
    /\ Raised("ModelNotFoundError")

C13_WitnessImage ==
    /\ call = Call("estimate_image", "m1", None, 1)
    /\ last_refresh = "ok"
    /\ _models # None
    /\ DOMAIN _models[1] = {"m2"}
    /\ Raised("ModelNotFoundError")

\* C18: estimate_video and estimate_image raise ValidationError for a count
\* below 1, whatever the model id and the seconds.
C18_CountBelowOne ==
    (call.op \in EstimateOps /\ call.count < 1) => Raised("ValidationError")

\* C18 witness: count 0 for a video model the cache holds, with a duration
\* it supports.
C18_Witness ==
    /\ call = Call("estimate_video", "m1", Some(6), 0)
    /\ _models # None
    /\ "m1" \in DOMAIN _models[1]
    /\ _models[1]["m1"].output_types = {"video"}
    /\ Raised("ValidationError")

\* C18 witness of estimate_image with a negative count.
C18_WitnessImage ==
    /\ call = Call("estimate_image", "m2", None, -1)
    /\ _models # None
    /\ "m2" \in DOMAIN _models[1]
    /\ Raised("ValidationError")

\* the duration estimate_video would validate for the model record
UnsupportedDuration(model_info, seconds) ==
    IF model_info.supported_durations = None \/ model_info.supported_durations[1] = <<>>
    THEN seconds = None
    ELSE /\ seconds # None
         /\ \A i \in 1..Len(model_info.supported_durations[1]) :
               model_info.supported_durations[1][i] # seconds[1]

\* C19: the checks are made in the order count, model id, capability,
\* duration, and the first that fails gives the error.  A count below 1
\* gives the count error and neither a lookup nor a fetch; an unknown id
\* gives ModelNotFoundError whatever the seconds; a model without "video"
\* gives the capability error whatever the seconds; a duration error is
\* given only to a known video model and a count of at least 1.
C19_CheckOrder ==
    /\ []((call.op \in EstimateOps /\ call.count < 1) => RaisedCheck("count"))
    /\ [][(estimates' = estimates + 1 /\ call'.count < 1)
            => /\ fetches' = fetches
               /\ lookups' = lookups
               /\ _models' = _models]_vars
    /\ []((LookedUp /\ call.op \in EstimateOps /\ call.arg \notin DOMAIN _models[1])
            => Raised("ModelNotFoundError"))
    /\ []((LookedUp /\ call.op = "estimate_video" /\ call.arg \in DOMAIN _models[1]
              /\ "video" \notin _models[1][call.arg].output_types)
            => RaisedCheck("capability"))
    /\ []((call.op = "estimate_video"
              /\ (RaisedCheck("explicit_duration") \/ RaisedCheck("duration")))
            => /\ LookedUp
               /\ call.arg \in DOMAIN _models[1]
               /\ "video" \in _models[1][call.arg].output_types
               /\ UnsupportedDuration(_models[1][call.arg], call.seconds))

\* C19 witness: estimate_video of the image model m2 with a duration that
\* is none of its durations: the capability error.
C19_Witness ==
    /\ call = Call("estimate_video", "m2", Some(5), 1)
    /\ _models # None
    /\ "m2" \in DOMAIN _models[1]
    /\ _models[1]["m2"].supported_durations = Some(<<4, 6, 8>>)
    /\ RaisedCheck("capability")

\* C19 witness of a count below 1 with an unknown id and no catalog
\* fetched, and of an unknown id with a duration no model supports.
C19_WitnessCount ==
    /\ call = Call("estimate_video", "m3", Some(5), 0)
    /\ fetches = 0
    /\ _models = None
    /\ RaisedCheck("count")

C19_WitnessUnknown ==
    /\ call = Call("estimate_video", "m3", Some(5), 1)
    /\ _models # None
    /\ DOMAIN _models[1] = {"m1"}
    /\ Raised("ModelNotFoundError")

\* C19 witness of the last check: a video model, a count of 2, a duration
\* that is none of its durations.
C19_WitnessDuration ==
    /\ call = Call("estimate_video", "m1", Some(5), 2)
    /\ RaisedCheck("duration")

\* the model record the latest estimate call resolved
Resolved ==
    /\ call.op \in EstimateOps
    /\ last_refresh \in {"none", "ok"}
    /\ _models # None
    /\ call.arg \in DOMAIN _models[1]

\* C20: estimate_video raises ValidationError for a model without "video",
\* estimate_image for a model without "image", and a model with both is
\* given the capability error by neither: estimate_image returns its
\* estimate for every count of at least 1.
C20_CapabilityChecks ==
    Resolved
    => LET output_types == _models[1][call.arg].output_types
       IN  /\ (call.op = "estimate_video" /\ "video" \notin output_types)
                => Raised("ValidationError")
           /\ (call.op = "estimate_image" /\ "image" \notin output_types)
                => Raised("ValidationError")
           /\ {"video", "image"} \subseteq output_types
                => /\ ~RaisedCheck("capability")
                   /\ (call.op = "estimate_image" /\ call.count >= 1)
                        => reg_result.kind = "return"

\* C20 witness: estimate_video of the image model m2, with a duration and
\* a count that pass.
C20_Witness ==
    /\ call = Call("estimate_video", "m2", Some(6), 1)
    /\ _models # None
    /\ "m2" \in DOMAIN _models[1]
    /\ _models[1]["m2"].output_types = {"image"}
    /\ RaisedCheck("capability")

\* C20 witness of estimate_image on a video model, and of a model with both
\* output types estimated as an image and as a video.
C20_WitnessImage ==
    /\ call = Call("estimate_image", "m1", None, 1)
    /\ _models # None
    /\ "m1" \in DOMAIN _models[1]
    /\ _models[1]["m1"].output_types = {"video"}
    /\ RaisedCheck("capability")

C20_WitnessBoth ==
    /\ call.op = "estimate_image"
    /\ call.arg = "m1"
    /\ estimates = 2
    /\ lookups = 2
    /\ fetches = 1
    /\ reg_result.kind = "return"
    /\ _models[1]["m1"].output_types = {"image", "video"}
    /\ reg_result.kind = "return"
    /\ reg_result.value.generation_type = "image"

----------------------------------------------------------------------------
(* A CostEstimator whose registry holds one model *)

\* The model objects explored: every output set, with no "seconds", an
\* empty list or the list [4, 6, 8], priced by a range or fixed.
LoadedEntries ==
    { RawModel("m1", output, pricing, seconds) :
        output \in {{"video"}, {"image", "video"}, {"image"}},
        pricing \in { RawPricing("calculated", NumAbsent, Range(Num(60), Num(90), Num(120))),
                      RawPricing("post_generation", NumAbsent, Range(Num(5), NumAbsent, Num(60))),
                      RawPricing("fixed", Num(7), NoRange) },
        seconds \in {None, Some(<<>>), Some(<<4, 6, 8>>)} }

\* the seconds and count arguments explored
LoadedSeconds == {None, Some(0), Some(4), Some(6), Some(99)}
LoadedCounts == {1, 2, 3}

\* the estimator after a refresh_models() that fetched a catalog of one model
LoadedInit ==
    /\ max_retries = DEFAULT_MAX_RETRIES
    /\ pc = "idle"
    /\ attempt = 0
    /\ call_count = 0
    /\ last_exception = None
    /\ response = None
    /\ outcomes = <<>>
    /\ sleeps = <<>>
    /\ result = NoResult
    /\ \E data \in LoadedEntries :
          /\ _models = Some([id \in {data.id} |-> ModelFromApiData(data)])
          /\ catalog = CatalogIds(<<data>>)
    /\ fetches = 1
    /\ refreshes = 1
    /\ lookups = 0
    /\ lookup_first = FALSE
    /\ fetch_failed = FALSE
    /\ reg_result = Return(None)
    /\ call = Call("refresh", "", None, 1)
    /\ last_refresh = "ok"
    /\ returned = "none"
    /\ estimates = 0
    /\ fetch_error = NoResult
    /\ refreshing = NoRefresh
    /\ handles = <<>>

\* estimator.estimate_video(model, seconds, count)
LoadedEstimateVideo ==
    /\ OpsLeft
    /\ \E model \in {"m1", "m3"}, seconds \in LoadedSeconds, count \in LoadedCounts :
          Estimate(Call("estimate_video", model, seconds, count))

\* estimator.estimate_image(model, quality, size, count)
LoadedEstimateImage ==
    /\ OpsLeft
    /\ \E model \in {"m1", "m3"}, count \in LoadedCounts :
          Estimate(Call("estimate_image", model, None, count))

LoadedNext ==
    \/ LoadedEstimateVideo
    \/ LoadedEstimateImage

LoadedSpec == LoadedInit /\ [][LoadedNext]_vars

----------------------------------------------------------------------------
(* Properties of the estimates, checked under LoadedSpec *)

\* the supported durations of the model the call names, [] if it has none
DurationsOf(id) ==
    IF _models[1][id].supported_durations = None THEN <<>>
    ELSE _models[1][id].supported_durations[1]
Member(x, list) == \E i \in 1..Len(list) : list[i] = x

\* estimate_video was called with a count of at least 1 on a video model
\* of the cache
VideoEstimated ==
    /\ call.op = "estimate_video"
    /\ call.count >= 1
    /\ call.arg \in DOMAIN _models[1]
    /\ "video" \in _models[1][call.arg].output_types

\* C21: estimate_video uses an explicit seconds as it is (0 included), and
\* otherwise the first of the model's supported durations; with neither it
\* raises ValidationError; with a non-empty list a duration outside the list
\* raises ValidationError and a returned duration is in the list.
C21_DurationResolution ==
    VideoEstimated
    => LET list == DurationsOf(call.arg)
           Estimated(duration) ==
               /\ reg_result.kind = "return"
               /\ reg_result.value.duration_seconds = Some(duration)
       IN  /\ (call.seconds # None /\ (list = <<>> \/ Member(call.seconds[1], list)))
                => Estimated(call.seconds[1])
           /\ (call.seconds = None /\ list # <<>>) => Estimated(list[1])
           /\ (call.seconds = None /\ list = <<>>) => Raised("ValidationError")
           /\ (call.seconds # None /\ list # <<>> /\ ~Member(call.seconds[1], list))
                => Raised("ValidationError")
           /\ (reg_result.kind = "return" /\ list # <<>>)
                => Member(reg_result.value.duration_seconds[1], list)

\* C21 witness: no seconds given to a model with the list [4, 6, 8]: 4.
C21_Witness ==
    /\ call = Call("estimate_video", "m1", None, 1)
    /\ DurationsOf("m1") = <<4, 6, 8>>
    /\ reg_result.kind = "return"
    /\ reg_result.value.duration_seconds = Some(4)

\* C21 witnesses: 6 and 99 on that list, 0 and nothing on an empty list.
C21_WitnessMember ==
    /\ call = Call("estimate_video", "m1", Some(6), 1)
    /\ DurationsOf("m1") = <<4, 6, 8>>
    /\ reg_result.kind = "return"
    /\ reg_result.value.duration_seconds = Some(6)

C21_WitnessNonMember ==
    /\ call = Call("estimate_video", "m1", Some(99), 1)
    /\ DurationsOf("m1") = <<4, 6, 8>>
    /\ RaisedCheck("duration")

C21_WitnessZero ==
    /\ call = Call("estimate_video", "m1", Some(0), 1)
    /\ _models[1]["m1"].supported_durations = Some(<<>>)
    /\ reg_result.kind = "return"
    /\ reg_result.value.duration_seconds = Some(0)

C21_WitnessNone ==
    /\ call = Call("estimate_video", "m1", None, 1)
    /\ _models[1]["m1"].supported_durations = Some(<<>>)
    /\ RaisedCheck("explicit_duration")

\* C22: an estimate that estimate_video or estimate_image returns has the
\* model id and the count of the call, price_per_unit the average of the
\* model's pricing estimate, and as totals the minimum, the average and the
\* maximum of that estimate, each times the count.
C22_LinearTotals ==
    (call.op \in EstimateOps /\ reg_result.kind = "return")
    => LET unit == GetEstimate(_models[1][call.arg].pricing)
           estimate == reg_result.value
       IN  /\ call.count >= 1
           /\ estimate.model = call.arg
           /\ estimate.count = call.count
           /\ estimate.price_per_unit = unit[2]
           /\ estimate.total_min = unit[1] * call.count
           /\ estimate.total_average = unit[2] * call.count
           /\ estimate.total_max = unit[3] * call.count

\* C22 witness: three videos priced 60 / 90 / 120 cents each.
C22_Witness ==
    /\ call = Call("estimate_video", "m1", Some(6), 3)
    /\ reg_result.kind = "return"
    /\ reg_result.value.price_per_unit = 90
    /\ reg_result.value.total_min = 180
    /\ reg_result.value.total_average = 270
    /\ reg_result.value.total_max = 360

\* C22 witness of two images at a fixed price of 7 cents.
C22_WitnessImage ==
    /\ call = Call("estimate_image", "m1", None, 2)
    /\ reg_result.kind = "return"
    /\ reg_result.value.total_min = 14
    /\ reg_result.value.total_max = 14

----------------------------------------------------------------------------
(* Properties of the estimator and its registry cache, checked under       *)
(* EstimatorSpec                                                           *)

\* C23: estimate_video and estimate_image on a registry whose mapping is
\* loaded call list_models() not once and leave the mapping as it is,
\* whether they return or raise.
C23_EstimateOnLoadedCache ==
    [][(estimates' = estimates + 1 /\ _models # None)
         => /\ fetches' = fetches
            /\ _models' = _models
            /\ catalog' = catalog
            /\ fetch_error' = NoResult]_vars

\* C23 witness: a second estimate, returned from the mapping the first one
\* fetched.
C23_Witness ==
    /\ call.op = "estimate_video"
    /\ refreshes = 0
    /\ estimates = 2
    /\ lookups = 2
    /\ fetches = 1
    /\ reg_result.kind = "return"

\* C23 witness of an estimate that raises on a loaded mapping.
C23_WitnessRaise ==
    /\ call.op = "estimate_image"
    /\ refreshes = 1
    /\ estimates = 1
    /\ fetches = 1
    /\ last_refresh = "none"
    /\ RaisedCheck("capability")

LookupOps == {"get_model", "get_all_models", "estimate_video", "estimate_image"}

\* C24: when list_models() raises in the fetch a lookup makes on an
\* unloaded registry, the lookup raises that same error, after that one
\* list_models() call, and the registry stays unloaded; and every lookup on
\* an unloaded registry fetches.
C24_FirstFetchFailure ==
    /\ []((last_refresh = "fetch_raised" /\ call.op \in LookupOps)
            => /\ fetch_error.kind = "raise"
               /\ reg_result = fetch_error)
    /\ [][(lookups' = lookups + 1 /\ last_refresh' = "fetch_raised")
            => /\ _models = None
               /\ _models' = None
               /\ fetches' = fetches + 1]_vars
    /\ [][(lookups' = lookups + 1 /\ _models = None) => fetches' = fetches + 1]_vars

\* C24 witness: two lookups and no refresh; the fetch of the first raised,
\* the second, an estimate_video, fetched again and returned.
C24_Witness ==
    /\ call.op = "estimate_video"
    /\ refreshes = 0
    /\ lookups = 2
    /\ fetches = 2
    /\ fetch_failed
    /\ last_refresh = "ok"
    /\ reg_result.kind = "return"

\* C24 witnesses of the error leaving each lookup.
C24_WitnessVideo ==
    /\ call.op = "estimate_video"
    /\ last_refresh = "fetch_raised"
    /\ _models = None
    /\ Raised("AuthenticationError")

C24_WitnessImage ==
    /\ call.op = "estimate_image"
    /\ last_refresh = "fetch_raised"
    /\ _models = None
    /\ Raised("NetworkError")

C24_WitnessGetModel ==
    /\ call.op = "get_model"
    /\ last_refresh = "fetch_raised"
    /\ _models = None
    /\ Raised("NetworkError")

C24_WitnessGetAllModels ==
    /\ call.op = "get_all_models"
    /\ last_refresh = "fetch_raised"
    /\ _models = None
    /\ Raised("AuthenticationError")

----------------------------------------------------------------------------
(* ModelRegistry.refresh() run statement by statement by one caller while  *)
(* another caller looks models up in the same registry                     *)

\* refresh() between two of its statements: list_models() has returned
\* raw_models ("fetched"), or self._models = {} is done and the loop has
\* stored the records of the first k keys ("loop").  prior is self._models
\* as it was when refresh() was entered.
Refreshing(at, raw_models, prior, k) ==
    [at |-> at, raw_models |-> raw_models, prior |-> prior, k |-> k]

\* the loop entered with the mapping left as it was
AfterClearPrior == _models

\* self._models = {}
AfterClear == Some(<<>>)

\* self._models[model_id] = ModelInfo.from_api_data(data)
AfterStore(model_id, data) ==
    Some([id \in DOMAIN _models[1] \cup {model_id} |->
            IF id = model_id THEN ModelFromApiData(data) ELSE _models[1][id]])

\* the mapping that holds the records of the first k keys of raw_models
FirstBuilt(raw_models, k) ==
    [id \in { raw_models.keys[i] : i \in 1..k } |-> ModelFromApiData(raw_models.at[id])]

ConcurrentInit == RegistryInit

\* refresh(): raw_models = self._client.list_models()
RefreshFetch ==
    /\ OpsLeft
    /\ refreshing.at = "idle"
    /\ refreshes' = refreshes + 1
    /\ fetches' = fetches + 1
    /\ \E fetch \in FetchOutcomes :
          /\ fetch_failed' = (fetch_failed \/ fetch.outcome.kind = "raise")
          /\ fetch_error' = IF fetch.outcome.kind = "raise" THEN fetch.outcome ELSE NoResult
          /\ catalog' = IF fetch.outcome.kind = "raise" THEN catalog ELSE fetch.data
          /\ refreshing' = IF fetch.outcome.kind = "raise" THEN NoRefresh
                           ELSE Refreshing("fetched", fetch.outcome.value, _models, 0)
          /\ last_refresh' = IF fetch.outcome.kind = "raise" THEN "fetch_raised"
                             ELSE "none"
    /\ UNCHANGED <<_models, lookups, lookup_first, reg_result, call, returned,
                   estimates, handles>>
    /\ UNCHANGED transport_vars

\* refresh(): self._models = {}
RefreshClear ==
    /\ refreshing.at = "fetched"
    /\ _models' = AfterClear
    /\ refreshing' = [refreshing EXCEPT !.at = "loop"]
    /\ UNCHANGED <<fetches, refreshes, lookups, lookup_first, fetch_failed,
                   reg_result, call, catalog, last_refresh, returned, estimates,
                   fetch_error, handles>>
    /\ UNCHANGED transport_vars

\* refresh(): one turn of the loop; from_api_data raising ends refresh()
RefreshStore ==
    /\ refreshing.at = "loop"
    /\ refreshing.k < Len(refreshing.raw_models.keys)
    /\ LET model_id == refreshing.raw_models.keys[refreshing.k + 1]
           data == refreshing.raw_models.at[model_id]
       IN  IF PricingRaises(data.pricing)
           THEN /\ refreshing' = NoRefresh
                /\ last_refresh' = "build_raised"
                /\ UNCHANGED _models
           ELSE /\ _models' = AfterStore(model_id, data)
                /\ refreshing' = [refreshing EXCEPT !.k = refreshing.k + 1]
                /\ UNCHANGED last_refresh
    /\ UNCHANGED <<fetches, refreshes, lookups, lookup_first, fetch_failed,
                   reg_result, call, catalog, returned, estimates, fetch_error,
                   handles>>
    /\ UNCHANGED transport_vars

\* refresh(): the loop is over and the call returns
RefreshReturn ==
    /\ refreshing.at = "loop"
    /\ refreshing.k = Len(refreshing.raw_models.keys)
    /\ refreshing' = NoRefresh
    /\ last_refresh' = "ok"
    /\ UNCHANGED <<_models, fetches, refreshes, lookups, lookup_first,
                   fetch_failed, reg_result, call, catalog, returned, estimates,
                   fetch_error, handles>>
    /\ UNCHANGED transport_vars

\* registry.get_model(model_id) by the other caller, on a registry that
\* _ensure_loaded finds loaded
ConcurrentGetModel ==
    /\ OpsLeft
    /\ Loaded
    /\ lookups' = lookups + 1
    /\ \E model_id \in ModelIds :
          /\ call' = Call("get_model", model_id, None, 1)
          /\ reg_result' = GetModelAnswer(_models[1], model_id)
    /\ returned' = "none"
    /\ UNCHANGED <<_models, fetches, refreshes, lookup_first, fetch_failed,
                   catalog, last_refresh, estimates, fetch_error, refreshing,
                   handles>>
    /\ UNCHANGED transport_vars

ConcurrentNext ==
    \/ RefreshFetch
    \/ RefreshClear
    \/ RefreshStore
    \/ RefreshReturn
    \/ ConcurrentGetModel

ConcurrentSpec == ConcurrentInit /\ [][ConcurrentNext]_vars

----------------------------------------------------------------------------
(* Properties of the interleaved refresh, checked under ConcurrentSpec *)

\* C25: nothing keeps a lookup out of a refresh in progress: while refresh()
\* is in its loop self._models holds the records stored so far and nothing
\* else, and a get_model made then is answered from that mapping, which
\* need be neither the mapping before the refresh nor the one after it.
C25_LookupSeesPartialMapping ==
    /\ [](refreshing.at = "loop"
            => _models = Some(FirstBuilt(refreshing.raw_models, refreshing.k)))
    /\ [][(lookups' = lookups + 1 /\ refreshing.at = "loop")
            => reg_result' = GetModelAnswer(FirstBuilt(refreshing.raw_models, refreshing.k),
                                            call'.arg)]_vars

\* C25 witness: get_model("m2") raised ModelNotFoundError during a refresh
\* that had stored one record, m2 being a key of the mapping before the
\* refresh and of the mapping the refresh ends with.
C25_Witness ==
    /\ refreshing.at = "loop"
    /\ refreshing.k = 1
    /\ refreshing.prior # None
    /\ "m2" \in DOMAIN refreshing.prior[1]
    /\ Len(refreshing.raw_models.keys) = 2
    /\ refreshing.raw_models.keys[2] = "m2"
    /\ ~PricingRaises(refreshing.raw_models.at["m2"].pricing)
    /\ call = Call("get_model", "m2", None, 1)
    /\ lookups = 1
    /\ Raised("ModelNotFoundError")

----------------------------------------------------------------------------
(* _request under the assumption that every requests.request call and     *)
(* every time.sleep call comes back                                        *)

FairSpec == Spec /\ WF_vars(Next)

\* every call comes to an end
Terminates == <>(pc = "done")

----------------------------------------------------------------------------
(* Properties of the retry loop, checked under Spec *)

ExhaustedError ==
    Raise("NetworkError",
          [t |-> "exhausted", n |-> max_retries, exc |-> last_exception],
          None, None)

\* C26: a call that has ended has ended in one of three ways: it returned
\* the parsed body of a response with status < 400, it raised the
\* NetworkError of the exhausted budget after max_retries attempts, or it
\* raised a typed error (an ImageRouterError subtype) out of the attempt
\* that failed.
C26_ThreeOutcomes ==
    pc = "done"
    => \/ /\ result.kind = "return"
          /\ Last(outcomes) = "ok"
          /\ response[1].status_code < 400
          /\ result = Return(response[1].json)
       \/ /\ result = ExhaustedError
          /\ call_count = max_retries
       \/ /\ result.kind = "raise"
          /\ result # ExhaustedError
          /\ result.type \in ImageRouterErrors
          /\ Last(outcomes) \in {"error", "RequestException", "ok"}

\* C27: each time.sleep call of the loop follows the failed attempt with
\* the zero-based index i = attempt and is given 2^i after a timeout or a
\* connection failure, and after a 429 the integer of the Retry-After
\* header if the response has one and 2^i if it has none; nothing else
\* makes the loop sleep.
C27_BackoffSeconds ==
    [][sleeps' # sleeps
       => LET kind == Last(outcomes')
              seconds == Last(sleeps')
              header == response'[1].retry_after
          IN  /\ sleeps' = Append(sleeps, seconds)
              /\ attempt = Len(outcomes') - 1
              /\ kind \in {"Timeout", "ConnectionError", "429"}
              /\ kind \in {"Timeout", "ConnectionError"} => seconds = Pow2(attempt)
              /\ kind = "429"
                 => seconds = IF header = None THEN Pow2(attempt) ELSE header[1].n]_vars

\* C27 witness: the retry with index 2 is about to start after a 429 with
\* Retry-After: 7 at attempt 0 (slept 7) and a timeout at attempt 1 (slept 2).
C27_Witness ==
    /\ pc = "loop"
    /\ attempt = 2
    /\ outcomes = <<"429", "Timeout">>
    /\ sleeps = <<7, 2>>

\* C27 witness: a connection failure at attempt 0 (slept 1), then a 429 with
\* no Retry-After header at attempt 1 (slept 2).
C27_WitnessNoHeader ==
    /\ pc = "loop"
    /\ attempt = 2
    /\ outcomes = <<"ConnectionError", "429">>
    /\ response[1].retry_after = None
    /\ sleeps = <<1, 2>>

\* C29: the loop never sleeps after the attempt with index max_retries - 1:
\* whenever the call is inside time.sleep, an attempt is left.
C29_NoSleepAfterFinalAttempt ==
    pc = "sleep" => attempt < max_retries - 1

----------------------------------------------------------------------------
(* ImageRouterClient.__init__ choosing max_retries, then one _request call *)

\* the max_retries argument of __init__: None or an integer
BudgetParameters == {None} \cup { Some(n) : n \in -1..MaxRetries }

\* os.environ.get("IMAGEROUTER_MAX_RETRIES"): unset, or an integer literal
BudgetEnvironment == {None} \cup { Some(n) : n \in -1..MaxRetries }

\* max_retries or int(os.environ.get("IMAGEROUTER_MAX_RETRIES", DEFAULT_MAX_RETRIES))
ChosenMaxRetries(parameter, environment) ==
    IF parameter # None /\ parameter[1] # 0 THEN parameter[1]
    ELSE IF environment # None THEN environment[1]
    ELSE DEFAULT_MAX_RETRIES

BudgetInit ==
    /\ max_retries \in { ChosenMaxRetries(parameter, environment) :
                            parameter \in BudgetParameters,
                            environment \in BudgetEnvironment }
    /\ pc = "idle"
    /\ attempt = 0
    /\ call_count = 0
    /\ last_exception = None
    /\ response = None
    /\ outcomes = <<>>
    /\ sleeps = <<>>
    /\ result = NoResult
    /\ _models = None
    /\ fetches = 0
    /\ refreshes = 0
    /\ lookups = 0
    /\ lookup_first = FALSE
    /\ fetch_failed = FALSE
    /\ reg_result = NoResult
    /\ call = NoCall
    /\ catalog = NoCatalog
    /\ last_refresh = "none"
    /\ returned = "none"
    /\ estimates = 0
    /\ fetch_error = NoResult
    /\ refreshing = NoRefresh
    /\ handles = <<>>

BudgetSpec == BudgetInit /\ [][Next]_vars

\* C30: whatever budget __init__ has set, a call that ends with the
\* NetworkError of the exhausted budget has invoked requests.request at
\* least once.
C30_AttemptBeforeExhaustion ==
    (pc = "done" /\ result = ExhaustedError) => call_count >= 1

----------------------------------------------------------------------------
(* utils.py, generators/image.py, generators/video.py: one call of         *)
(* ImageGenerator.image_to_image or VideoGenerator.image_to_video and the  *)
(* files it opens                                                          *)

\* the longest list of paths a call is explored with, the list of 17 apart
MaxFiles == 2

\* len(paths) > 16
MAX_IMAGES == 16

\* What a path leads to: a supported image that opens, a path that
\* validate_image_path rejects, an image that open() fails on.
PathKinds == {"ok", "invalid", "unreadable"}

\* the image_path and mask_path lists; a single path is the list of length 1
PathLists ==
    SeqsUpTo(PathKinds, MaxFiles) \cup {[i \in 1..(MAX_IMAGES + 1) |-> "ok"]}

\* mask_path: None or a list
MaskPaths == {None} \cup { Some(paths) : paths \in PathLists }

\* what post_multipart does: returns the response or raises
PostOutcomes == {"ok", "NetworkError", "GenerationError"}

\* what the saving of the output does: no output_path, saved, or
\* _save_output raises
SaveOutcomes == {"none", "ok", "ValidationError"}

\* a file object open(file_path, "rb") returned
Handle(role, state) == [role |-> role, state |-> state]

\* prepare_multiple_images(paths): the list comprehension opens the files in
\* order and stops at the first path that raises; the files opened before
\* it stay open, no statement closes them.
PrepareMultipleImages(paths, role) ==
    IF Len(paths) > MAX_IMAGES
    THEN [raised |-> "ValidationError", opened |-> <<>>]
    ELSE LET bad == { i \in 1..Len(paths) : paths[i] # "ok" }
             n == IF bad = {} THEN Len(paths)
                  ELSE (CHOOSE i \in bad : \A j \in bad : i <= j) - 1
         IN  [raised |-> IF bad = {} THEN "none"
                         ELSE IF paths[n + 1] = "invalid" THEN "ValidationError"
                         ELSE "OSError",
              opened |-> [i \in 1..n |-> Handle(role, "open")]]

\* close_file_handles(files)
CloseFileHandles(files) ==
    [i \in DOMAIN files |-> Handle(files[i].role, "closed")]

Raises(type) ==
    IF type \in ImageRouterErrors THEN Raise(type, JAbsent, None, None)
    ELSE RaiseOther(type)

\* the body of the try statement: post_multipart, then _save_output if
\* output_path is given
PostAndSave(post, save) ==
    IF post # "ok" THEN Raises(post)
    ELSE IF save \notin {"none", "ok"} THEN Raises(save)
    ELSE Return("result")

GeneratorOutcome(handles_after, r) == [handles |-> handles_after, result |-> r]

\* ImageGenerator.image_to_image
ImageToImageOutcome(prompt_ok, images, masks, post, save) ==
    IF ~prompt_ok THEN GeneratorOutcome(<<>>, Raises("ValidationError"))
    ELSE LET image_tuples == PrepareMultipleImages(images, "image")
         IN  IF image_tuples.raised # "none"
             THEN GeneratorOutcome(image_tuples.opened, Raises(image_tuples.raised))
             ELSE LET mask_tuples ==
                          IF masks # None /\ masks[1] # <<>>
                          THEN PrepareMultipleImages(masks[1], "mask")
                          ELSE [raised |-> "none", opened |-> <<>>]
                  IN  IF mask_tuples.raised # "none"
                      THEN GeneratorOutcome(image_tuples.opened \o mask_tuples.opened,
                                            Raises(mask_tuples.raised))
                      ELSE GeneratorOutcome(CloseFileHandles(image_tuples.opened)
                                              \o CloseFileHandles(mask_tuples.opened),
                                            PostAndSave(post, save))

\* VideoGenerator.image_to_video
ImageToVideoOutcome(prompt_ok, images, post, save) ==
    IF ~prompt_ok THEN GeneratorOutcome(<<>>, Raises("ValidationError"))
    ELSE LET file_tuples == PrepareMultipleImages(images, "image")
         IN  IF file_tuples.raised # "none"
             THEN GeneratorOutcome(file_tuples.opened, Raises(file_tuples.raised))
             ELSE GeneratorOutcome(CloseFileHandles(file_tuples.opened),
                                   PostAndSave(post, save))

GeneratorArguments(prompt_ok, images, masks, post, save) ==
    [prompt_ok |-> prompt_ok, images |-> images, masks |-> masks,
     post |-> post, save |-> save]

GeneratorInit ==
    /\ max_retries = DEFAULT_MAX_RETRIES
    /\ pc = "idle"
    /\ attempt = 0
    /\ call_count = 0
    /\ last_exception = None
    /\ response = None
    /\ outcomes = <<>>
    /\ sleeps = <<>>
    /\ result = NoResult
    /\ _models = None
    /\ fetches = 0
    /\ refreshes = 0
    /\ lookups = 0
    /\ lookup_first = FALSE
    /\ fetch_failed = FALSE
    /\ reg_result = NoResult
    /\ call = NoCall
    /\ catalog = NoCatalog
    /\ last_refresh = "none"
    /\ returned = "none"
    /\ estimates = 0
    /\ fetch_error = NoResult
    /\ refreshing = NoRefresh
    /\ handles = <<>>

ImageToImage ==
    /\ call.op = "none"
    /\ \E prompt_ok \in BOOLEAN, images \in PathLists, masks \in MaskPaths,
          post \in PostOutcomes, save \in SaveOutcomes :
          LET outcome == ImageToImageOutcome(prompt_ok, images, masks, post, save)
          IN  /\ call' = Call("image_to_image",
                              GeneratorArguments(prompt_ok, images, masks, post, save),
                              None, 1)
              /\ handles' = outcome.handles
              /\ reg_result' = outcome.result
    /\ UNCHANGED <<_models, fetches, refreshes, lookups, lookup_first, fetch_failed,
                   catalog, last_refresh, returned, estimates, fetch_error,
                   refreshing>>
    /\ UNCHANGED transport_vars

ImageToVideo ==
    /\ call.op = "none"
    /\ \E prompt_ok \in BOOLEAN, images \in PathLists,
          post \in PostOutcomes, save \in SaveOutcomes :
          LET outcome == ImageToVideoOutcome(prompt_ok, images, post, save)
          IN  /\ call' = Call("image_to_video",
                              GeneratorArguments(prompt_ok, images, None, post, save),
                              None, 1)
              /\ handles' = outcome.handles
              /\ reg_result' = outcome.result
    /\ UNCHANGED <<_models, fetches, refreshes, lookups, lookup_first, fetch_failed,
                   catalog, last_refresh, returned, estimates, fetch_error,
                   refreshing>>
    /\ UNCHANGED transport_vars

GeneratorNext ==
    \/ ImageToImage
    \/ ImageToVideo

GeneratorSpec == GeneratorInit /\ [][GeneratorNext]_vars

----------------------------------------------------------------------------
(* Properties of the generators, checked under GeneratorSpec *)

AllClosed == \A i \in 1..Len(handles) : handles[i].state = "closed"

\* C28: when image_to_image or image_to_video has returned or raised, every
\* file it opened, source image or mask, is closed.
C28_HandlesClosed ==
    call.op \in {"image_to_image", "image_to_video"} => AllClosed

\* Once the try statement is entered the finally clause closes every file:
\* a call that prepared all its images and masks leaves none open, whether
\* post_multipart or the saving of the output raised or not.
ClosedOncePrepared ==
    ( /\ call.op \in {"image_to_image", "image_to_video"}
      /\ call.arg.prompt_ok
      /\ PrepareMultipleImages(call.arg.images, "image").raised = "none"
      /\ (call.arg.masks # None
            => PrepareMultipleImages(call.arg.masks[1], "mask").raised = "none") )
    => AllClosed

====
